---- MODULE Spec2Model ----
(***************************************************************************)
(* A model of llava/serve/batchcli.py: the batch-inference driver.         *)
(*                                                                         *)
(* Text is a sequence of one-character strings, so that strip(), lower(),  *)
(* startswith() and the substring test are computed character by character *)
(* as the Python code computes them.  An optional value (None / a value)   *)
(* is a sequence of length 0 or 1.                                         *)
(***************************************************************************)
EXTENDS Integers, Sequences, FiniteSets, TLC

\* ------------------------------------------------------------------ bounds
\* Largest number of lines in the image-list file.
MaxImages == 2

\* Largest number of lines in the prompt file.
MaxPrompts == 2

\* Largest number of exceptions the except clause catches in one run.
MaxCaught == 2

\* Largest number of chunks a model name is assembled from.
MaxChunks == 2

\* Largest number of rows output.csv holds before a further write_to_csv call.
MaxCalls == 3

\* ------------------------------------------------------------ text helpers
None == <<>>

Some(v) == <<v>>

\* Python: a or ""  (None and the empty string are both falsy)
OrEmpty(opt) == IF opt = None THEN <<>> ELSE opt[1]

Whitespace == {" ", "\n", "\t", "\r"}

RECURSIVE LStrip(_)
LStrip(s) == IF s # <<>> /\ Head(s) \in Whitespace THEN LStrip(Tail(s)) ELSE s

RECURSIVE RStrip(_)
RStrip(s) ==
    IF s # <<>> /\ s[Len(s)] \in Whitespace THEN RStrip(SubSeq(s, 1, Len(s) - 1)) ELSE s

\* Python: str.strip()
Strip(s) == RStrip(LStrip(s))

UpperCase == <<"A", "B", "C", "D", "E", "F", "G", "H", "I", "J", "K", "L", "M", "N", "O", "P", "Q", "R", "S", "T", "U", "V", "W", "X", "Y", "Z">>

LowerCase == <<"a", "b", "c", "d", "e", "f", "g", "h", "i", "j", "k", "l", "m", "n", "o", "p", "q", "r", "s", "t", "u", "v", "w", "x", "y", "z">>

LowerChar(c) ==
    IF \E k \in 1..Len(UpperCase) : UpperCase[k] = c
    THEN LowerCase[CHOOSE k \in 1..Len(UpperCase) : UpperCase[k] = c]
    ELSE c

\* Python: str.lower()
Lower(s) == [k \in 1..Len(s) |-> LowerChar(s[k])]

\* Python: marker in s
Contains(s, marker) ==
    \E k \in 0..(Len(s) - Len(marker)) : SubSeq(s, k + 1, k + Len(marker)) = marker

\* Python: s.startswith(prefix)
StartsWith(s, prefix) == Len(s) >= Len(prefix) /\ SubSeq(s, 1, Len(prefix)) = prefix

\* -------------------------------------------------- llava.constants, utils
DEFAULT_IMAGE_TOKEN == <<"<", "i", "m", "a", "g", "e", ">">>

DEFAULT_IM_START_TOKEN == <<"<", "i", "m", "_", "s", "t", "a", "r", "t", ">">>

DEFAULT_IM_END_TOKEN == <<"<", "i", "m", "_", "e", "n", "d", ">">>

RECURSIVE AfterLastSlash(_)
AfterLastSlash(s) ==
    IF \E k \in 1..Len(s) : s[k] = "/"
    THEN AfterLastSlash(SubSeq(s, (CHOOSE k \in 1..Len(s) : s[k] = "/") + 1, Len(s)))
    ELSE s

RECURSIVE StripSlashes(_)
StripSlashes(s) ==
    IF s # <<>> /\ Head(s) = "/" THEN StripSlashes(Tail(s))
    ELSE IF s # <<>> /\ s[Len(s)] = "/" THEN StripSlashes(SubSeq(s, 1, Len(s) - 1))
    ELSE s

\* llava.mm_utils.get_model_name_from_path: the short model-name token of a path
get_model_name_from_path(model_path) == AfterLastSlash(StripSlashes(model_path))

\* ------------------------------------------------- conversation-mode choice
LLAVA_LLAMA_2 == <<"l", "l", "a", "v", "a", "_", "l", "l", "a", "m", "a", "_", "2">>

MISTRAL_INSTRUCT == <<"m", "i", "s", "t", "r", "a", "l", "_", "i", "n", "s", "t", "r", "u", "c", "t">>

CHATML_DIRECT == <<"c", "h", "a", "t", "m", "l", "_", "d", "i", "r", "e", "c", "t">>

LLAVA_V1 == <<"l", "l", "a", "v", "a", "_", "v", "1">>

MPT == <<"m", "p", "t">>

LLAVA_V0 == <<"l", "l", "a", "v", "a", "_", "v", "0">>

\* A variant of the chain in which the generic "v1" marker is tested before the
\* specific "v1.6-34b" marker.
InferConvModeV1First(model_name) ==
    LET n == Lower(model_name) IN
    IF Contains(n, <<"l", "l", "a", "m", "a", "-", "2">>) THEN LLAVA_LLAMA_2
    ELSE IF Contains(n, <<"m", "i", "s", "t", "r", "a", "l">>) THEN MISTRAL_INSTRUCT
    ELSE IF Contains(n, <<"v", "1">>) THEN LLAVA_V1
    ELSE IF Contains(n, <<"v", "1", ".", "6", "-", "3", "4", "b">>) THEN CHATML_DIRECT
    ELSE IF Contains(n, <<"m", "p", "t">>) THEN MPT
    ELSE LLAVA_V0

\* main, the if/elif chain on model_name.lower()
InferConvMode(model_name) ==
    LET n == Lower(model_name) IN
    IF Contains(n, <<"l", "l", "a", "m", "a", "-", "2">>) THEN LLAVA_LLAMA_2
    ELSE IF Contains(n, <<"m", "i", "s", "t", "r", "a", "l">>) THEN MISTRAL_INSTRUCT
    ELSE IF Contains(n, <<"v", "1", ".", "6", "-", "3", "4", "b">>) THEN CHATML_DIRECT
    ELSE IF Contains(n, <<"v", "1">>) THEN LLAVA_V1
    ELSE IF Contains(n, <<"m", "p", "t">>) THEN MPT
    ELSE LLAVA_V0

\* ------------------------------------------------------ llava.conversation
\* The names conv_templates is indexed with; any other name is a KeyError.
TemplateKeys == {LLAVA_LLAMA_2, MISTRAL_INSTRUCT, CHATML_DIRECT, LLAVA_V1, MPT, LLAVA_V0}

\* The object a copied conversation lives in (templates live under their names).
ConvObj == <<"#", "c", "o", "n", "v">>

ObjIds == TemplateKeys \cup {ConvObj}

\* A template as conv_templates holds it before the run: roles and the
\* messages the template ships with.
ConvTemplate(mode) ==
    IF mode = LLAVA_V0
    THEN [roles |-> <<<<"H", "u", "m", "a", "n">>, <<"A", "s", "s", "i", "s", "t", "a", "n", "t">>>>,
          messages |-> << <<<<"H", "u", "m", "a", "n">>, Some(<<"H", "i", "!">>)>>,
                          <<<<"A", "s", "s", "i", "s", "t", "a", "n", "t">>, Some(<<"H", "i", " ", "t", "h", "e", "r", "e", "!">>)>> >>]
    ELSE [roles |-> <<<<"U", "S", "E", "R">>, <<"A", "S", "S", "I", "S", "T", "A", "N", "T">>>>, messages |-> <<>>]

\* Conversation.copy(): a new conversation with its own list of messages
ConvCopy(c) == [roles |-> c.roles, messages |-> [k \in 1..Len(c.messages) |-> c.messages[k]]]

\* Conversation.append_message(role, message)
AppendMessage(c, role, message) == [c EXCEPT !.messages = Append(@, <<role, message>>)]

\* Conversation.get_prompt(): the transcript rendered to one string
RECURSIVE RenderMessages(_)
RenderMessages(messages) ==
    IF messages = <<>> THEN <<>>
    ELSE Head(messages)[1] \o <<":", " ">> \o OrEmpty(Head(messages)[2]) \o <<"\n">>
         \o RenderMessages(Tail(messages))

GetPrompt(c) == RenderMessages(c.messages)

\* A variant of the conversation reset that hands out the shared template itself.
NewConvAliased(objs, mode) == [objects |-> objs, ref |-> mode]

\* main: conv = conv_templates[args.conv_mode].copy()
NewConv(objs, mode) ==
    [objects |-> [objs EXCEPT ![ConvObj] = ConvCopy(objs[mode])], ref |-> ConvObj]

\* main: the image placeholder is put in front of the prompt
PrefixPrompt(prompt, image, use_im_start_end) ==
    IF image # None
    THEN IF use_im_start_end
         THEN DEFAULT_IM_START_TOKEN \o DEFAULT_IMAGE_TOKEN \o DEFAULT_IM_END_TOKEN
              \o <<"\n">> \o prompt
         ELSE DEFAULT_IMAGE_TOKEN \o <<"\n">> \o prompt
    ELSE prompt

\* ------------------------------------------------------------- output.csv
Header == <<<<"M", "o", "d", "e", "l", " ", "P", "a", "t", "h">>, <<"M", "o", "d", "e", "l", " ", "B", "a", "s", "e">>, <<"I", "m", "a", "g", "e", " ", "F", "i", "l", "e", " ", "U", "R", "L">>, <<"P", "r", "o", "m", "p", "t">>, <<"R", "e", "s", "p", "o", "n", "s", "e">>>>

NoFile == [exists |-> FALSE, rows |-> <<>>]

\* A variant of write_to_csv that writes the header on every call.
WriteToCsvAlwaysHeader(file, model_path, model_base, image_file, prompt, response) ==
    [exists |-> TRUE,
     rows |-> file.rows \o <<Header>>
              \o << <<model_path, OrEmpty(model_base), image_file, prompt, response>> >>]

\* A variant of write_to_csv that opens output.csv for writing, not appending.
WriteToCsvTruncating(file, model_path, model_base, image_file, prompt, response) ==
    [exists |-> TRUE,
     rows |-> (IF ~file.exists THEN <<Header>> ELSE <<>>)
              \o << <<model_path, OrEmpty(model_base), image_file, prompt, response>> >>]

\* write_to_csv, returning normally: output.csv after the call
WriteToCsv(file, model_path, model_base, image_file, prompt, response) ==
    LET file_exists == file.exists IN
    [exists |-> TRUE,
     rows |-> file.rows \o (IF ~file_exists THEN <<Header>> ELSE <<>>)
              \o << <<model_path, OrEmpty(model_base), image_file, prompt, response>> >>]

\* A variant in which the failing call has already put its row in the file.
WriteToCsvRaisedRowKept(file) ==
    [exists |-> TRUE, rows |-> file.rows \o << <<<<>>, <<>>, <<>>, <<>>, <<>>>> >>]

\* write_to_csv, the writerow of the data row raising: the file was opened for
\* append (so it exists) and the header, if it was due, is already written.
WriteToCsvRaised(file) ==
    LET file_exists == file.exists IN
    [exists |-> TRUE,
     rows |-> file.rows \o (IF ~file_exists THEN <<Header>> ELSE <<>>)]

\* load_image: whether the reference is fetched over the network
IsRemote(image_file) ==
    StartsWith(image_file, <<"h", "t", "t", "p", ":", "/", "/">>) \/ StartsWith(image_file, <<"h", "t", "t", "p", "s", ":", "/", "/">>)

\* ------------------------------------------------------------------ inputs
RECURSIVE SeqsUpTo(_, _)
SeqsUpTo(S, n) ==
    IF n = 0 THEN {<<>>}
    ELSE LET shorter == SeqsUpTo(S, n - 1) IN
         shorter \cup {Append(s, x) : s \in {t \in shorter : Len(t) = n - 1}, x \in S}

NonEmptySeqsUpTo(S, n) == SeqsUpTo(S, n) \ {<<>>}

\* Lines of an image-list file: a local path and a URL with a leading blank.
ImageLines == <<<<"a", ".", "j", "p", "g", "\n">>, <<" ", "h", "t", "t", "p", ":", "/", "/", "h", "/", "b", "\n">>>>

\* A blank line, as a trailing newline leaves one at the end of a file.
BlankLine == <<"\n">>

\* Lines of a prompt file: a prompt with surrounding blanks, a blank line, a
\* second prompt.
PromptLines == <<<<" ", "q", "?", " ", "\n">>, <<"\n">>, <<"r", "\n">>>>

\* The file of n lines that walks through lines, starting after the first skip.
CycleFile(lines, n, skip) == [k \in 1..n |-> lines[((k - 1 + skip) % Len(lines)) + 1]]

\* Image-list files: up to MaxImages references, the last line possibly blank.
ImageFiles ==
    UNION {{CycleFile(ImageLines, m, 0),
            Append(CycleFile(ImageLines, m - 1, 0), BlankLine)} : m \in 1..MaxImages}

\* Prompt files: up to MaxPrompts lines, starting with a prompt or a blank line.
PromptFiles == {CycleFile(PromptLines, n, skip) : n \in 1..MaxPrompts, skip \in {0, 1}}

\* --model-path values of the driver runs.
ModelPaths == {<<"f", "a", "c", "e", "b", "o", "o", "k", "/", "o", "p", "t", "-", "3", "5", "0", "m">>, <<"l", "i", "u", "h", "a", "o", "t", "i", "a", "n", "/", "l", "l", "a", "v", "a", "-", "v", "1", ".", "6", "-", "3", "4", "b">>}

\* --conv-mode values of the driver runs: absent, a template name, a name
\* conv_templates does not hold.
ConvModeArgs == {None, Some(LLAVA_V0), Some(<<"m", "y", "_", "m", "o", "d", "e">>)}

\* What model.generate and tokenizer.decode can produce before the strip.
Generations == {<<" ", "A", " ", "\n">>}

\* output.csv as an earlier run of the driver can have left it.
EarlierFiles ==
    {NoFile,
     [exists |-> TRUE,
      rows |-> <<Header, <<<<"f", "a", "c", "e", "b", "o", "o", "k", "/", "o", "p", "t", "-", "3", "5", "0", "m">>, <<>>, <<"z", ".", "j", "p", "g">>, <<"<", "i", "m", "a", "g", "e", ">", "\n", "q", "?">>, <<"Z">>>> >>]}

\* Pieces model names are assembled from (the name-inference check).
Chunks ==
    {<<"l", "l", "a", "m", "a", "-", "2">>, <<"m", "i", "s", "t", "r", "a", "l">>, <<"v", "1", ".", "6", "-", "3", "4", "b">>, <<"v", "1">>, <<"m", "p", "t">>, <<".", "6", "-", "3", "4", "b">>,
     <<"L", "L", "a", "V", "A", "-">>, <<"M", "i", "s", "t", "r", "a", "l">>, <<"m">>, <<"p", "t", "-", "V", "1">>, <<"o", "r", "g", "/">>}

RECURSIVE Flatten(_)
Flatten(ss) == IF ss = <<>> THEN <<>> ELSE Head(ss) \o Flatten(Tail(ss))

AssembledNames == {Flatten(ss) : ss \in NonEmptySeqsUpTo(Chunks, MaxChunks)}

\* ------------------------------------------------------------------- state
VARIABLES
    args,                 \* the parsed arguments (conv_mode is reassigned by main)
    image_file_list,      \* the lines of the image-list file
    prompt_file,          \* the lines of the prompt file
    mm_use_im_start_end,  \* model.config.mm_use_im_start_end
    pc,                   \* the statement main is about to execute
    model_name, conv_mode, prompts,
    line_no,              \* lines of the image list consumed so far
    image_file, image, image_tensor,
    prompt_no,            \* elements of prompts consumed so far for this image
    prompt, conv, roles, objects, prompt_text, input_ids, output_ids, outputs,
    csv,                  \* output.csv
    stdout,               \* the line most recently printed
    exc,                  \* the exception the except clause is handling
    uncaught,             \* the exception that ended the run
    csv_before,           \* output.csv as the run found it
    conv_mode_arg,        \* --conv-mode as given on the command line
    generated,            \* the (image, prompt) positions generate was called for
    appended,             \* the positions whose row write_to_csv appended
    raised_before_append, \* pairs whose guarded step raised before the row was written
    raised_after_append   \* pairs whose guarded step raised after the row was written

vars ==
    <<args, image_file_list, prompt_file, mm_use_im_start_end, pc, model_name, conv_mode,
      prompts, line_no, image_file, image, image_tensor, prompt_no, prompt, conv, roles,
      objects, prompt_text, input_ids, output_ids, outputs, csv, stdout, exc, uncaught,
      csv_before, conv_mode_arg, generated, appended, raised_before_append, raised_after_append>>

locals ==
    <<model_name, conv_mode, prompts, line_no, image_file, image, image_tensor, prompt_no,
      prompt, conv, roles, objects, prompt_text, input_ids, output_ids, outputs>>

ghosts == <<csv_before, conv_mode_arg, generated, appended, raised_before_append, raised_after_append>>

inputs == <<image_file_list, prompt_file, mm_use_im_start_end>>

Line(kind, a, b, c) == [kind |-> kind, a |-> a, b |-> b, c |-> c]

NoLine == Line("none", <<>>, <<>>, <<>>)

\* print('[WARNING] the auto inferred conversation mode is {}, while ...')
WarningLine(inferred, given) == Line("warning", inferred, given, given)

\* print(f"{roles[1]}: {outputs}")
AssistantLine(role, text) == Line("assistant", role, text, <<>>)

\* print("\n", {"prompt": prompt_text, "outputs": outputs}, "\n")
DebugLine(text, out) == Line("debug", text, out, <<>>)

\* print(f"Error processing image {image_file} with prompt '{prompt}': {e}")
ErrorLine(img, p, e) == Line("error", img, p, e)

\* The state main starts in, given the arguments, the two files and output.csv.
Start(paths, modes, images, prompt_lists, files, entry) ==
    /\ args \in [model_path : paths, model_base : {None}, conv_mode : modes,
                 debug : BOOLEAN]
    /\ image_file_list \in images
    /\ prompt_file \in prompt_lists
    /\ mm_use_im_start_end \in BOOLEAN
    /\ csv \in files
    /\ csv_before = csv
    /\ conv_mode_arg = args.conv_mode
    /\ pc = entry
    /\ model_name = <<>> /\ conv_mode = <<>> /\ prompts = <<>>
    /\ line_no = 0 /\ image_file = <<>> /\ image = None /\ image_tensor = None
    /\ prompt_no = 0 /\ prompt = <<>> /\ conv = None /\ roles = <<>>
    /\ objects = [o \in ObjIds |->
                    IF o = ConvObj THEN [roles |-> <<>>, messages |-> <<>>]
                    ELSE ConvTemplate(o)]
    /\ prompt_text = <<>> /\ input_ids = None /\ output_ids = <<>> /\ outputs = <<>>
    /\ stdout = NoLine /\ exc = None /\ uncaught = None
    /\ generated = <<>> /\ appended = <<>>
    /\ raised_before_append = 0 /\ raised_after_append = 0

Init ==
    Start(ModelPaths, ConvModeArgs,
          ImageFiles, PromptFiles, EarlierFiles, "infer")

\* ----------------------------------------------------------------- actions
Pair == <<line_no, prompt_no>>

\* An uncaught exception: the traceback ends the process.
Abort(e) ==
    /\ pc' = "aborted"
    /\ uncaught' = Some(e)

\* An exception inside the try block: control moves to the except clause.
Raise(e) ==
    /\ raised_before_append + raised_after_append < MaxCaught
    /\ pc' = "except"
    /\ exc' = Some(e)

\* main: model_name and the inferred conv_mode
Infer ==
    /\ pc = "infer"
    /\ model_name' = get_model_name_from_path(args.model_path)
    /\ conv_mode' = InferConvMode(model_name')
    /\ pc' = "resolve"
    /\ UNCHANGED <<args, inputs, prompts, line_no, image_file, image, image_tensor,
                   prompt_no, prompt, conv, roles, objects, prompt_text, input_ids,
                   output_ids, outputs, csv, stdout, exc, uncaught, ghosts>>

\* A variant of the override rule in which the inferred mode always wins.
EffectiveConvModeInferred(given, inferred) == Some(inferred)

\* main: args.conv_mode after the comparison with the inferred mode
EffectiveConvMode(given, inferred) ==
    IF given # None /\ Some(inferred) # given THEN given ELSE Some(inferred)

\* main: the condition under which the warning is printed
Disagrees(given, inferred) == given # None /\ Some(inferred) # given

\* main: the explicit --conv-mode against the inferred one
Resolve ==
    /\ pc = "resolve"
    /\ args' = [args EXCEPT !.conv_mode = EffectiveConvMode(args.conv_mode, conv_mode)]
    /\ stdout' = IF Disagrees(args.conv_mode, conv_mode)
                 THEN WarningLine(conv_mode, args.conv_mode[1])
                 ELSE stdout
    /\ pc' = "read_prompts"
    /\ UNCHANGED <<inputs, locals, csv, exc, uncaught, ghosts>>

\* main: prompts = [line.strip() for line in prompt_file]
ReadPrompts ==
    /\ pc = "read_prompts"
    /\ prompts' = [k \in 1..Len(prompt_file) |-> Strip(prompt_file[k])]
    /\ pc' = "for_image"
    /\ UNCHANGED <<args, inputs, model_name, conv_mode, line_no, image_file, image,
                   image_tensor, prompt_no, prompt, conv, roles, objects, prompt_text,
                   input_ids, output_ids, outputs, csv, stdout, exc, uncaught, ghosts>>

\* main: for image_file in file, the next line stripped
ForImage ==
    /\ pc = "for_image"
    /\ line_no < Len(image_file_list)
    /\ line_no' = line_no + 1
    /\ image_file' = Strip(image_file_list[line_no + 1])
    /\ pc' = "load_image"
    /\ UNCHANGED <<args, inputs, model_name, conv_mode, prompts, image, image_tensor,
                   prompt_no, prompt, conv, roles, objects, prompt_text, input_ids,
                   output_ids, outputs, csv, stdout, exc, uncaught, ghosts>>

\* main: the image list is exhausted and main returns
ImagesDone ==
    /\ pc = "for_image"
    /\ line_no = Len(image_file_list)
    /\ pc' = "done"
    /\ UNCHANGED <<args, inputs, locals, csv, stdout, exc, uncaught, ghosts>>

\* load_image returning an image (an empty reference can not be opened)
LoadImage ==
    /\ pc = "load_image"
    /\ image_file # <<>>
    /\ image' = Some(image_file)
    /\ pc' = "process_images"
    /\ UNCHANGED <<args, inputs, model_name, conv_mode, prompts, line_no, image_file,
                   image_tensor, prompt_no, prompt, conv, roles, objects, prompt_text,
                   input_ids, output_ids, outputs, csv, stdout, exc, uncaught, ghosts>>

\* A variant in which a failed image is skipped and the loop goes on.
LoadImageRaisesSkipped ==
    /\ pc = "load_image"
    /\ pc' = "for_image"
    /\ UNCHANGED <<args, inputs, locals, csv, stdout, exc, uncaught, ghosts>>

\* load_image raising: the fetch of a remote reference, or the open/decode
LoadImageRaises ==
    /\ pc = "load_image"
    /\ \/ IsRemote(image_file) /\ Abort(<<"r", "e", "q", "u", "e", "s", "t", "s", ".", "g", "e", "t">>)
       \/ Abort(<<"I", "m", "a", "g", "e", ".", "o", "p", "e", "n">>)
    /\ UNCHANGED <<args, inputs, locals, csv, stdout, exc, ghosts>>

\* main: process_images and the move to the device
ProcessImages ==
    /\ pc = "process_images"
    /\ image_tensor' = image
    /\ pc' = "for_prompt"
    /\ prompt_no' = 0
    /\ UNCHANGED <<args, inputs, model_name, conv_mode, prompts, line_no, image_file,
                   image, prompt, conv, roles, objects, prompt_text, input_ids,
                   output_ids, outputs, csv, stdout, exc, uncaught, ghosts>>

ProcessImagesRaises ==
    /\ pc = "process_images"
    /\ Abort(<<"p", "r", "o", "c", "e", "s", "s", "_", "i", "m", "a", "g", "e", "s">>)
    /\ UNCHANGED <<args, inputs, locals, csv, stdout, exc, ghosts>>

\* A variant of the inner loop that walks the prompt list from its end.
ForPromptReversed ==
    /\ pc = "for_prompt"
    /\ prompt_no < Len(prompts)
    /\ prompt_no' = prompt_no + 1
    /\ prompt' = prompts[Len(prompts) - prompt_no]
    /\ pc' = "format"
    /\ UNCHANGED <<args, inputs, model_name, conv_mode, prompts, line_no, image_file,
                   image, image_tensor, conv, roles, objects, prompt_text, input_ids,
                   output_ids, outputs, csv, stdout, exc, uncaught, ghosts>>

\* main: for prompt in prompts, the next prompt
ForPrompt ==
    /\ pc = "for_prompt"
    /\ prompt_no < Len(prompts)
    /\ prompt_no' = prompt_no + 1
    /\ prompt' = prompts[prompt_no + 1]
    /\ pc' = "format"
    /\ UNCHANGED <<args, inputs, model_name, conv_mode, prompts, line_no, image_file,
                   image, image_tensor, conv, roles, objects, prompt_text, input_ids,
                   output_ids, outputs, csv, stdout, exc, uncaught, ghosts>>

\* main: the prompts of this image are exhausted
PromptsDone ==
    /\ pc = "for_prompt"
    /\ prompt_no = Len(prompts)
    /\ pc' = "for_image"
    /\ UNCHANGED <<args, inputs, locals, csv, stdout, exc, uncaught, ghosts>>

\* main: the conversation of the pair, from the template copy to get_prompt()
Format ==
    /\ pc = "format"
    /\ args.conv_mode[1] \in TemplateKeys
    /\ LET fresh == NewConv(objects, args.conv_mode[1])
           c0 == fresh.objects[fresh.ref]
           p == PrefixPrompt(prompt, image, mm_use_im_start_end)
           c2 == AppendMessage(AppendMessage(c0, c0.roles[1], Some(p)), c0.roles[2], None)
       IN /\ conv' = Some(fresh.ref)
          /\ roles' = c0.roles
          /\ prompt' = p
          /\ objects' = [fresh.objects EXCEPT ![fresh.ref] = c2]
          /\ prompt_text' = GetPrompt(c2)
    /\ pc' = "encode"
    /\ UNCHANGED <<args, inputs, model_name, conv_mode, prompts, line_no, image_file,
                   image, image_tensor, prompt_no, input_ids, output_ids, outputs, csv,
                   stdout, exc, uncaught, ghosts>>

\* main: conv_templates has no template of the requested name
FormatKeyError ==
    /\ pc = "format"
    /\ args.conv_mode[1] \notin TemplateKeys
    /\ Abort(<<"K", "e", "y", "E", "r", "r", "o", "r">>)
    /\ UNCHANGED <<args, inputs, locals, csv, stdout, exc, ghosts>>

\* main: tokenizer_image_token, stop_str and the streamer (before the try)
Encode ==
    /\ pc = "encode"
    /\ input_ids' = Some(prompt_text)
    /\ pc' = "generate"
    /\ UNCHANGED <<args, inputs, model_name, conv_mode, prompts, line_no, image_file,
                   image, image_tensor, prompt_no, prompt, conv, roles, objects,
                   prompt_text, output_ids, outputs, csv, stdout, exc, uncaught, ghosts>>

EncodeRaises ==
    /\ pc = "encode"
    /\ Abort(<<"t", "o", "k", "e", "n", "i", "z", "e", "r", "_", "i", "m", "a", "g", "e", "_", "t", "o", "k", "e", "n">>)
    /\ UNCHANGED <<args, inputs, locals, csv, stdout, exc, ghosts>>

\* try: model.generate returning
Generate ==
    /\ pc = "generate"
    /\ output_ids' \in Generations
    /\ generated' = Append(generated, Pair)
    /\ pc' = "decode"
    /\ UNCHANGED <<args, inputs, model_name, conv_mode, prompts, line_no, image_file,
                   image, image_tensor, prompt_no, prompt, conv, roles, objects,
                   prompt_text, input_ids, outputs, csv, stdout, exc, uncaught,
                   csv_before, conv_mode_arg, appended, raised_before_append, raised_after_append>>

GenerateRaises ==
    /\ pc = "generate"
    /\ generated' = Append(generated, Pair)
    /\ Raise(<<"g", "e", "n", "e", "r", "a", "t", "e">>)
    /\ raised_before_append' = raised_before_append + 1
    /\ UNCHANGED <<args, inputs, locals, csv, stdout, uncaught, csv_before, conv_mode_arg, appended,
                   raised_after_append>>

\* try: outputs = tokenizer.decode(output_ids[0]).strip(), stored in the conversation
Decode ==
    /\ pc = "decode"
    /\ outputs' = Strip(output_ids)
    /\ LET last == Len(objects[conv[1]].messages)
       IN objects' = [objects EXCEPT ![conv[1]].messages[last][2] = Some(outputs')]
    /\ pc' = "print"
    /\ UNCHANGED <<args, inputs, model_name, conv_mode, prompts, line_no, image_file,
                   image, image_tensor, prompt_no, prompt, conv, roles, prompt_text,
                   input_ids, output_ids, csv, stdout, exc, uncaught, ghosts>>

DecodeRaises ==
    /\ pc = "decode"
    /\ Raise(<<"d", "e", "c", "o", "d", "e">>)
    /\ raised_before_append' = raised_before_append + 1
    /\ UNCHANGED <<args, inputs, locals, csv, stdout, uncaught, csv_before, conv_mode_arg, generated,
                   appended, raised_after_append>>

\* try: print(f"{roles[1]}: {outputs}")
PrintOutputs ==
    /\ pc = "print"
    /\ stdout' = AssistantLine(roles[2], outputs)
    /\ pc' = "write"
    /\ UNCHANGED <<args, inputs, locals, csv, exc, uncaught, ghosts>>

PrintOutputsRaises ==
    /\ pc = "print"
    /\ Raise(<<"p", "r", "i", "n", "t">>)
    /\ raised_before_append' = raised_before_append + 1
    /\ UNCHANGED <<args, inputs, locals, csv, stdout, uncaught, csv_before, conv_mode_arg, generated,
                   appended, raised_after_append>>

\* try: write_to_csv(args.model_path, args.model_base if ... else "", image_file,
\* prompt, outputs)
WriteCsv ==
    /\ pc = "write"
    /\ csv' = WriteToCsv(csv, args.model_path, Some(OrEmpty(args.model_base)),
                         image_file, prompt, outputs)
    /\ appended' = Append(appended, Pair)
    /\ pc' = "debug"
    /\ UNCHANGED <<args, inputs, locals, stdout, exc, uncaught, csv_before, conv_mode_arg, generated,
                   raised_before_append, raised_after_append>>

WriteCsvRaises ==
    /\ pc = "write"
    /\ csv' = WriteToCsvRaised(csv)
    /\ Raise(<<"w", "r", "i", "t", "e", "_", "t", "o", "_", "c", "s", "v">>)
    /\ raised_before_append' = raised_before_append + 1
    /\ UNCHANGED <<args, inputs, locals, stdout, uncaught, csv_before, conv_mode_arg, generated,
                   appended, raised_after_append>>

\* try: if args.debug is false the pair is finished
DebugOff ==
    /\ pc = "debug"
    /\ ~args.debug
    /\ pc' = "for_prompt"
    /\ UNCHANGED <<args, inputs, locals, csv, stdout, exc, uncaught, ghosts>>

\* try: the debug dump
DebugPrint ==
    /\ pc = "debug"
    /\ args.debug
    /\ stdout' = DebugLine(prompt_text, outputs)
    /\ pc' = "for_prompt"
    /\ UNCHANGED <<args, inputs, locals, csv, exc, uncaught, ghosts>>

DebugPrintRaises ==
    /\ pc = "debug"
    /\ args.debug
    /\ Raise(<<"d", "e", "b", "u", "g", " ", "p", "r", "i", "n", "t">>)
    /\ raised_after_append' = raised_after_append + 1
    /\ UNCHANGED <<args, inputs, locals, csv, stdout, uncaught, csv_before, conv_mode_arg, generated,
                   appended, raised_before_append>>

\* A variant of the except clause that reports the error and re-raises it.
ExceptReraises ==
    /\ pc = "except"
    /\ stdout' = ErrorLine(image_file, prompt, exc[1])
    /\ exc' = None
    /\ Abort(exc[1])
    /\ UNCHANGED <<args, inputs, locals, csv, ghosts>>

\* except Exception as e: the error line, then the next prompt
Except ==
    /\ pc = "except"
    /\ stdout' = ErrorLine(image_file, prompt, exc[1])
    /\ exc' = None
    /\ pc' = "for_prompt"
    /\ UNCHANGED <<args, inputs, locals, csv, uncaught, ghosts>>

Next ==
    \/ Infer \/ Resolve \/ ReadPrompts
    \/ ForImage \/ ImagesDone \/ LoadImage \/ LoadImageRaises
    \/ ProcessImages \/ ProcessImagesRaises
    \/ ForPrompt \/ PromptsDone \/ Format \/ FormatKeyError
    \/ Encode \/ EncodeRaises
    \/ Generate \/ GenerateRaises \/ Decode \/ DecodeRaises
    \/ PrintOutputs \/ PrintOutputsRaises
    \/ WriteCsv \/ WriteCsvRaises
    \/ DebugOff \/ DebugPrint \/ DebugPrintRaises
    \/ Except

Spec == Init /\ [][Next]_vars

\* ---------------------------------------------------- the name-inference runs
\* The model name of the example run.
ExampleNames == {<<"l", "l", "a", "v", "a", "-", "v", "1", ".", "6", "-", "3", "4", "b", "-", "s", "o", "m", "e", "t", "h", "i", "n", "g">>}

\* Every --conv-mode value of the inference runs.
AllConvModeArgs == ConvModeArgs \cup {Some(CHATML_DIRECT), Some(LLAVA_V1), Some(MPT)}

InitInfer ==
    Start(AssembledNames \cup ExampleNames, AllConvModeArgs, {<<<<"a", ".", "j", "p", "g", "\n">>>>},
          {<<<<"q", "?", "\n">>>>}, {NoFile}, "infer")

NextInfer == Infer \/ Resolve

\* main up to the choice of the conversation mode, over assembled model names
SpecInfer == InitInfer /\ [][NextInfer]_vars

\* ------------------------------------------------ sequences of write_to_csv calls
CallModelBases == {None, Some(<<>>), Some(<<"b", "a", "s", "e">>)}

CallImages == {<<"a", ".", "j", "p", "g">>, <<"h", "t", "t", "p", ":", "/", "/", "h", "/", "b">>}

CallPrompts == {<<"<", "i", "m", "a", "g", "e", ">", "\n", "q", "?">>}

CallResponses == {<<"A">>}

InitCsv ==
    Start({<<"f", "a", "c", "e", "b", "o", "o", "k", "/", "o", "p", "t", "-", "3", "5", "0", "m">>}, {None}, {<<<<"a", ".", "j", "p", "g", "\n">>>>}, {<<<<"q", "?", "\n">>>>},
          EarlierFiles, "write_to_csv")

\* one call of write_to_csv, by this run or a later one, that returns
CallWriteToCsv ==
    /\ pc = "write_to_csv"
    /\ Len(csv.rows) <= MaxCalls
    /\ \E model_path \in ModelPaths, model_base \in CallModelBases, img \in CallImages,
          p \in CallPrompts, response \in CallResponses :
          csv' = WriteToCsv(csv, model_path, model_base, img, p, response)
    /\ UNCHANGED <<args, inputs, pc, locals, stdout, exc, uncaught, ghosts>>

\* one call of write_to_csv that raises at the data row
CallWriteToCsvRaises ==
    /\ pc = "write_to_csv"
    /\ csv' = WriteToCsvRaised(csv)
    /\ UNCHANGED <<args, inputs, pc, locals, stdout, exc, uncaught, ghosts>>

NextCsv == CallWriteToCsv \/ CallWriteToCsvRaises

\* any sequence of write_to_csv calls on output.csv
SpecCsv == InitCsv /\ [][NextCsv]_vars

\* ------------------------------------------------------------------ claims
M == Len(image_file_list)

N == Len(prompt_file)

Range(s) == {s[k] : k \in 1..Len(s)}

\* The data rows and the header rows among the rows of a file.
DataRows(rows) == SelectSeq(rows, LAMBDA r : r # Header)

HeaderRows(rows) == SelectSeq(rows, LAMBDA r : r = Header)

IsPrefix(s, t) == Len(s) <= Len(t) /\ SubSeq(t, 1, Len(s)) = s

LexLess(p, q) == p[1] < q[1] \/ (p[1] = q[1] /\ p[2] < q[2])

\* The rows this run has put in output.csv, and the data rows among them.
RunRows == SubSeq(csv.rows, Len(csv_before.rows) + 1, Len(csv.rows))

RunRecords == DataRows(RunRows)

\* All (image, prompt) positions in nested order.
AllPairs == [k \in 1..(M * N) |-> <<((k - 1) \div N) + 1, ((k - 1) % N) + 1>>]

GuardedBeforeAppend == {<<"g", "e", "n", "e", "r", "a", "t", "e">>, <<"d", "e", "c", "o", "d", "e">>, <<"p", "r", "i", "n", "t">>, <<"w", "r", "i", "t", "e", "_", "t", "o", "_", "c", "s", "v">>}

ImageFailures == {Some(<<"r", "e", "q", "u", "e", "s", "t", "s", ".", "g", "e", "t">>), Some(<<"I", "m", "a", "g", "e", ".", "o", "p", "e", "n">>)}

\* The placeholder the user turn starts with.
Placeholder ==
    IF mm_use_im_start_end
    THEN <<"<", "i", "m", "_", "s", "t", "a", "r", "t", ">", "<", "i", "m", "a", "g", "e", ">", "<", "i", "m", "_", "e", "n", "d", ">", "\n">>
    ELSE <<"<", "i", "m", "a", "g", "e", ">", "\n">>

\* C1 as claimed: every run, ended normally or by an uncaught exception, has
\* appended at most M*N records, and exactly M*N minus the number of pairs whose
\* generation step raised.
C1_CountEveryRun ==
    pc \in {"done", "aborted"} =>
        /\ Len(RunRecords) <= M * N
        /\ Len(RunRecords) = M * N - raised_before_append

\* C1 amended: every run has appended at most M*N records; a run that ends
\* normally has appended exactly M*N minus the number of pairs whose guarded step
\* raised before the record was written.
C1_CountCompletedRun ==
    /\ Len(RunRecords) <= M * N
    /\ pc = "done" => Len(RunRecords) = M * N - raised_before_append

C1_Witness ==
    /\ pc = "done" /\ M = 2 /\ N = 2
    /\ raised_before_append = 1
    /\ Len(RunRecords) = 3

\* C2: over any sequence of write_to_csv calls the file, once it exists, holds
\* exactly one header row, written as its first row by the call that found the
\* file absent; a call that finds the file never adds a header; every call leaves
\* the rows already in the file in place (append-only).
C2_HeaderOnceAppendOnly ==
    /\ [](~csv.exists => csv.rows = <<>>)
    /\ [](csv.exists => Len(HeaderRows(csv.rows)) = 1 /\ csv.rows[1] = Header)
    /\ [][/\ IsPrefix(csv.rows, csv'.rows)
          /\ csv.exists => HeaderRows(csv'.rows) = HeaderRows(csv.rows)
          /\ ~csv.exists => /\ csv'.exists
                            /\ csv'.rows[1] = Header
                            /\ Len(HeaderRows(csv'.rows)) = 1]_vars

C2_Witness ==
    /\ pc = "write_to_csv"
    /\ csv_before = NoFile
    /\ Len(csv.rows) = 4
    /\ csv.rows[3] # csv.rows[4]

\* C3 as claimed: a pair whose guarded step raised has no record in output.csv,
\* its error line naming the image and the prompt is printed, and the driver goes
\* on with the next prompt of the same image.
C3_FailedPairHasNoRecord ==
    [][pc = "except" =>
          /\ Pair \notin Range(appended)
          /\ Len(RunRecords) = Len(appended)
          /\ \A r \in Range(csv.rows) : Len(r) = 5
          /\ stdout' = ErrorLine(image_file, prompt, exc[1])
          /\ pc' = "for_prompt" /\ line_no' = line_no /\ prompt_no' = prompt_no
          /\ csv' = csv /\ uncaught' = None]_vars

\* C3 amended: a pair whose guarded step raised before its record was written
\* (in generate, decode, the output print or write_to_csv) has no record, full or
\* partial, in output.csv; for every pair whose guarded step raised, the error line
\* naming the image and the prompt is printed and the driver goes on with the next
\* prompt of the same image.
C3_EarlyFailedPairHasNoRecord ==
    [][pc = "except" =>
          /\ exc[1] \in GuardedBeforeAppend => Pair \notin Range(appended)
          /\ Len(RunRecords) = Len(appended)
          /\ \A r \in Range(csv.rows) : Len(r) = 5
          /\ stdout' = ErrorLine(image_file, prompt, exc[1])
          /\ pc' = "for_prompt" /\ line_no' = line_no /\ prompt_no' = prompt_no
          /\ csv' = csv /\ uncaught' = None]_vars

C3_Witness ==
    /\ pc = "format" /\ prompt_no = 2
    /\ stdout = ErrorLine(image_file, Placeholder \o prompts[1], <<"w", "r", "i", "t", "e", "_", "t", "o", "_", "c", "s", "v">>)
    /\ appended = <<>>

\* C4 as claimed: an exception in the encode, generate or decode step is caught,
\* reported with the image and the prompt, and the run goes on.
C4_EncodeGenerateDecodeCaught ==
    [][/\ pc \in {"encode", "generate", "decode"} =>
              pc' \in {"generate", "decode", "print", "except"}
       /\ pc = "except" =>
              stdout' = ErrorLine(image_file, prompt, exc[1]) /\ pc' = "for_prompt"]_vars

\* C4 amended: an exception in the generate or decode step is caught, reported
\* with the image and the prompt, and does not end the run, so a run that ends
\* normally has called generate for every pair; an exception in the encode step
\* is not caught and ends the run.
C4_GenerateDecodeCaught ==
    /\ [][/\ pc \in {"generate", "decode"} => pc' \in {"decode", "print", "except"}
          /\ pc = "except" =>
                 /\ stdout' = ErrorLine(image_file, prompt, exc[1])
                 /\ pc' = "for_prompt" /\ uncaught' = None
          /\ pc = "encode" /\ pc' # "generate" =>
                 pc' = "aborted" /\ uncaught' = Some(<<"t", "o", "k", "e", "n", "i", "z", "e", "r", "_", "i", "m", "a", "g", "e", "_", "t", "o", "k", "e", "n">>)]_vars
    /\ [](uncaught \notin {Some(<<"g", "e", "n", "e", "r", "a", "t", "e">>), Some(<<"d", "e", "c", "o", "d", "e">>)})
    /\ [](pc = "done" => generated = AllPairs)

C4_Witness ==
    /\ pc = "generate" /\ Pair = <<2, 1>>
    /\ stdout.kind = "error" /\ stdout.c = <<"d", "e", "c", "o", "d", "e">>
    /\ raised_before_append = 2

\* C5: a failure of load_image for the i-th image ends the run there: no pair of
\* image i or of a later image is processed, nothing runs afterwards, and the
\* records appended for the images before i stay in output.csv.
C5_ImageFailureEndsRun ==
    /\ [][/\ pc = "load_image" /\ pc' # "process_images" =>
                 /\ pc' = "aborted" /\ uncaught' \in ImageFailures
                 /\ csv' = csv /\ generated' = generated
          /\ pc # "aborted"]_vars
    /\ [](pc = "aborted" /\ uncaught \in ImageFailures =>
             /\ \A p \in Range(generated) \cup Range(appended) : p[1] < line_no
             /\ IsPrefix(csv_before.rows, csv.rows)
             /\ Len(RunRecords) = Len(appended))

C5_Witness ==
    /\ pc = "aborted" /\ uncaught = Some(<<"r", "e", "q", "u", "e", "s", "t", "s", ".", "g", "e", "t">>)
    /\ line_no = 2
    /\ Len(RunRecords) = 2

\* C6: generate is called for the pairs in nested order (image list outermost,
\* prompt list innermost); a record is appended only for the pair generate was
\* last called for, so before generate is called for any later pair; the records
\* of a run stand in output.csv in that order.
C6_NestedOrder ==
    /\ [](/\ \A k \in 1..(Len(generated) - 1) : LexLess(generated[k], generated[k + 1])
          /\ \A k \in 1..(Len(appended) - 1) : LexLess(appended[k], appended[k + 1])
          /\ Range(appended) \subseteq Range(generated)
          /\ Len(RunRecords) = Len(appended)
          /\ \A k \in 1..Len(appended) :
                /\ k <= Len(RunRecords)
                /\ RunRecords[k][3] = Strip(image_file_list[appended[k][1]])
                /\ RunRecords[k][4] = Placeholder \o Strip(prompt_file[appended[k][2]]))
    /\ [][/\ generated' # generated =>
                 /\ generated' = Append(generated, <<line_no, prompt_no>>)
                 /\ \A p \in Range(generated) : LexLess(p, <<line_no, prompt_no>>)
                 /\ appended' = appended
          /\ appended' # appended =>
                 /\ appended' = Append(appended, generated[Len(generated)])
                 /\ generated' = generated]_vars

C6_Witness ==
    /\ pc = "done"
    /\ appended = <<<<1, 1>>, <<1, 2>>, <<2, 1>>, <<2, 2>>>>
    /\ prompt_file[1] # prompt_file[2]
    /\ image_file_list[1] # image_file_list[2]

Markers == <<<<"l", "l", "a", "m", "a", "-", "2">>, <<"m", "i", "s", "t", "r", "a", "l">>, <<"v", "1", ".", "6", "-", "3", "4", "b">>, <<"v", "1">>, <<"m", "p", "t">>>>

MarkerModes == <<LLAVA_LLAMA_2, MISTRAL_INSTRUCT, CHATML_DIRECT, LLAVA_V1, MPT>>

\* C7: the inferred mode is the mode of the first marker, in the order llama-2,
\* mistral, v1.6-34b, v1, mpt, found in the lower-cased model name, and llava_v0
\* when none is found; a name holding v1.6-34b and neither llama-2 nor mistral
\* gets chatml_direct.
C7_FirstMarkerWins ==
    pc # "infer" =>
        LET n == Lower(model_name)
            hits == {k \in 1..Len(Markers) : Contains(n, Markers[k])}
        IN /\ hits = {} => conv_mode = LLAVA_V0
           /\ hits # {} =>
                  conv_mode = MarkerModes[CHOOSE k \in hits : \A h \in hits : k <= h]
           /\ (3 \in hits /\ 1 \notin hits /\ 2 \notin hits) => conv_mode = CHATML_DIRECT

C7_Witness ==
    /\ pc = "resolve"
    /\ model_name = <<"l", "l", "a", "v", "a", "-", "v", "1", ".", "6", "-", "3", "4", "b", "-", "s", "o", "m", "e", "t", "h", "i", "n", "g">>
    /\ conv_mode = CHATML_DIRECT

\* The mode C8 names: the explicit --conv-mode when given, else the inferred one.
ClaimedMode == IF conv_mode_arg # None THEN conv_mode_arg[1] ELSE conv_mode

\* When C8 has the warning printed.
ClaimedWarning == conv_mode_arg # None /\ conv_mode_arg[1] # conv_mode

\* C8: the mode the template of every pair is picked with is the explicit
\* --conv-mode when one is given, else the inferred mode; the warning is printed
\* exactly when an explicit mode differs from the inferred one; the comparison
\* never ends the run.
C8_OverrideWins ==
    /\ [](pc \notin {"infer", "resolve"} => args.conv_mode = Some(ClaimedMode))
    /\ [][/\ pc = "resolve" =>
                 /\ pc' = "read_prompts" /\ uncaught' = None
                 /\ ClaimedWarning => stdout' = WarningLine(conv_mode, conv_mode_arg[1])
                 /\ ~ClaimedWarning => stdout' = NoLine
          /\ pc = "format" /\ pc' = "encode" =>
                 /\ roles' = ConvTemplate(ClaimedMode).roles
                 /\ IsPrefix(ConvTemplate(ClaimedMode).messages,
                             objects'[conv'[1]].messages)]_vars
    /\ [](uncaught = Some(<<"K", "e", "y", "E", "r", "r", "o", "r">>) => ClaimedMode \notin TemplateKeys)

C8_Witness ==
    /\ pc = "generate"
    /\ conv_mode_arg = Some(LLAVA_V0) /\ conv_mode = CHATML_DIRECT
    /\ roles = <<<<"H", "u", "m", "a", "n">>, <<"A", "s", "s", "i", "s", "t", "a", "n", "t">>>>
    /\ Len(generated) >= 1

\* C9: a blank line of the prompt file is kept as an empty prompt, and every
\* record appended for it has the empty prompt in its prompt field.
C9_BlankPromptRecorded ==
    /\ pc \notin {"infer", "resolve", "read_prompts"} =>
           \A k \in 1..N : (Strip(prompt_file[k]) = <<>>) => prompts[k] = <<>>
    /\ \A k \in 1..Len(appended) :
           (k <= Len(RunRecords) /\ Strip(prompt_file[appended[k][2]]) = <<>>) =>
               RunRecords[k][4] = <<>>

\* C10: the conversation of every pair is the selected template's messages
\* followed by exactly two messages, the user turn holding the placeholder once
\* and then this pair's prompt, and the assistant turn, empty until this pair's
\* output is stored in it; it is an object of its own; the templates and the
\* loaded prompt list never change.
C10_NoLeakAcrossPairs ==
    LET template == ConvTemplate(args.conv_mode[1])
        user == <<template.roles[1], Some(Placeholder \o Strip(prompt_file[prompt_no]))>>
    IN /\ \A t \in TemplateKeys : objects[t] = ConvTemplate(t)
       /\ pc \notin {"infer", "resolve", "read_prompts"} =>
              prompts = [k \in 1..N |-> Strip(prompt_file[k])]
       /\ pc \in {"encode", "generate", "decode"} =>
              /\ conv[1] \notin TemplateKeys
              /\ objects[conv[1]].messages =
                     template.messages \o <<user, <<template.roles[2], None>>>>
       /\ pc \in {"print", "write", "debug"} =>
              /\ conv[1] \notin TemplateKeys
              /\ objects[conv[1]].messages =
                     template.messages \o <<user, <<template.roles[2], Some(outputs)>>>>

C10_Witness ==
    /\ pc = "encode" /\ Pair = <<2, 2>>
    /\ args.conv_mode = Some(LLAVA_V0)
    /\ Len(appended) >= 1 /\ raised_before_append >= 1

====
